---- MODULE Spec2Model ----
(***************************************************************************)
(* Model of the structural source editors of synthtool/languages/java.py:  *)
(* remove_method, copy_and_rename_method, add_javadoc, annotate_method and *)
(* deprecate_method.                                                       *)
(*                                                                         *)
(* A string is a sequence of characters (one-character strings; a word     *)
(* whose letters no editor looks into, such as "deprecated", is written as *)
(* one element).  A line is a string as fp.readline() returns it: it ends  *)
(* with "\n", except possibly the last line of a file.  A file is the      *)
(* sequence of its lines.  Every editor reads the file line by line,       *)
(* builds the list `lines` and writes its elements back one after the      *)
(* other; the file's new line sequence is what reading those bytes yields. *)
(***************************************************************************)
EXTENDS Integers, Sequences, FiniteSets, TLC

VARIABLES file, hist, run

vars == <<file, hist, run>>

(***************************************************************************)
(* Bounds of the model.                                                    *)
(***************************************************************************)
\* lines of a file before the first call
MaxLen == 4
\* calls made on one file
MaxCalls == 2
\* lines of a file an editor is called on again
MaxInput == 10

(***************************************************************************)
(* Strings.                                                                *)
(***************************************************************************)
NL == "\n"

\* the whitespace of str.strip(), str.lstrip() and of \s, among the characters used
WS == {" ", "\t", "\n"}

RECURSIVE LeadingCount(_)
\* number of leading whitespace characters: len(s) - len(s.lstrip())
LeadingCount(s) ==
  IF s = <<>> \/ Head(s) \notin WS THEN 0 ELSE 1 + LeadingCount(Tail(s))

\* str.lstrip()
LStrip(s) == SubSeq(s, LeadingCount(s) + 1, Len(s))

RECURSIVE RStrip(_)
RStrip(s) ==
  IF s = <<>> \/ s[Len(s)] \notin WS THEN s ELSE RStrip(SubSeq(s, 1, Len(s) - 1))

\* str.strip()
Strip(s) == RStrip(LStrip(s))

\* s starts with p
StartsWith(s, p) == Len(p) <= Len(s) /\ SubSeq(s, 1, Len(p)) = p

RECURSIVE Spaces(_)
\* n * " "
Spaces(n) == IF n = 0 THEN <<>> ELSE <<" ">> \o Spaces(n - 1)

RECURSIVE Replace(_, _, _)
\* str.replace(before, after): every non-overlapping occurrence, left to right
Replace(s, before, after) ==
  IF s = <<>> THEN <<>>
  ELSE IF StartsWith(s, before)
       THEN after \o Replace(SubSeq(s, Len(before) + 1, Len(s)), before, after)
       ELSE <<Head(s)>> \o Replace(Tail(s), before, after)

RECURSIVE SplitKeep(_, _)
\* the lines fp.readline() yields from the text s: each up to and including its "\n";
\* cur is the line being collected
SplitKeep(s, cur) ==
  IF s = <<>> THEN (IF cur = <<>> THEN <<>> ELSE <<cur>>)
  ELSE IF Head(s) = NL
       THEN <<Append(cur, NL)>> \o SplitKeep(Tail(s), <<>>)
       ELSE SplitKeep(Tail(s), Append(cur, Head(s)))

RECURSIVE WriteLines(_, _)
\* the lines of the file after fp.write(line) for each line of ls, one after the
\* other; cur is the text written so far after the last "\n"
WriteLines(ls, cur) ==
  IF ls = <<>> THEN (IF cur = <<>> THEN <<>> ELSE <<cur>>)
  ELSE LET parts == SplitKeep(cur \o Head(ls), <<>>)
           n == Len(parts)
       IN  IF n = 0 THEN WriteLines(Tail(ls), <<>>)
           ELSE IF parts[n][Len(parts[n])] = NL
                THEN parts \o WriteLines(Tail(ls), <<>>)
                ELSE SubSeq(parts, 1, n - 1) \o WriteLines(Tail(ls), parts[n])

\* writing with a terminator added to a line that has none
WrittenTerminated(ls) ==
  WriteLines([k \in 1..Len(ls) |->
                IF ls[k] # <<>> /\ ls[k][Len(ls[k])] = NL THEN ls[k]
                ELSE Append(ls[k], NL)], <<>>)

\* the file after open(filename, "w") and fp.write(line) for each line of `lines`
Written(ls) == WriteLines(ls, <<>>)

RECURSIVE SplitDrop(_, _)
SplitDrop(s, cur) ==
  IF s = <<>> THEN (IF cur = <<>> THEN <<>> ELSE <<cur>>)
  ELSE IF Head(s) = NL
       THEN <<cur>> \o SplitDrop(Tail(s), <<>>)
       ELSE SplitDrop(Tail(s), Append(cur, Head(s)))

\* str.splitlines(): the lines without their terminators
SplitLines(s) == SplitDrop(s, <<>>)

(***************************************************************************)
(* Matching.                                                               *)
(***************************************************************************)
\* the lengths a group (.*) would take: the signature found anywhere in the line
SigGroupsAnywhere(signature, line) ==
  {k \in 0..Len(line) : StartsWith(SubSeq(line, k + 1, Len(line)), signature)}

\* the lengths the group (\s*) can take in
\* re.compile("(\\s*)" + re.escape(signature) + ".*").match(line)
SigGroups(signature, line) ==
  {k \in 0..LeadingCount(line) :
     StartsWith(SubSeq(line, k + 1, Len(line)), signature)}

\* regex.match(line) is not None
SigMatch(signature, line) == SigGroups(signature, line) # {}

\* match.group(1): \s* is greedy, the longest whitespace prefix that lets the rest match
SigGroup1(signature, line) ==
  LET k == CHOOSE k \in SigGroups(signature, line) :
             \A j \in SigGroups(signature, line) : j <= k
  IN  SubSeq(line, 1, k)

\* the line is lead, a closing brace and nothing more but whitespace (fullmatch)
CloseMatchWholeLine(lead, line) == RStrip(line) = lead \o <<"}">>

\* re.compile(match.group(1) + "}").match(line) is not None
CloseMatch(lead, line) == StartsWith(line, lead \o <<"}">>)

\* leading_regex = None | a compiled pattern for the indentation lead
NoRegex == [set |-> FALSE, lead |-> <<>>]
Regex(lead) == [set |-> TRUE, lead |-> lead]

(***************************************************************************)
(* remove_method                                                           *)
(***************************************************************************)
RECURSIVE RemoveScanKeepsCloser(_, _, _, _, _)
\* remove_method with the closing line kept (the block counted as closed one line early)
RemoveScanKeepsCloser(F, i, signature, lines, lr) ==
  IF i > Len(F) THEN lines
  ELSE LET line == F[i] IN
    IF SigMatch(signature, line)
    THEN RemoveScanKeepsCloser(F, i + 1, signature, lines,
                               Regex(SigGroup1(signature, line)))
    ELSE IF ~lr.set
    THEN RemoveScanKeepsCloser(F, i + 1, signature, Append(lines, line), lr)
    ELSE IF CloseMatch(lr.lead, line)
    THEN RemoveScanKeepsCloser(F, i + 1, signature, Append(lines, line), NoRegex)
    ELSE RemoveScanKeepsCloser(F, i + 1, signature, lines, lr)

RECURSIVE RemoveScan(_, _, _, _, _)
\* the while loop of remove_method over the lines F[i..], with the list `lines`
\* and leading_regex as they stand
RemoveScan(F, i, signature, lines, lr) ==
  IF i > Len(F) THEN lines
  ELSE LET line == F[i] IN
    IF SigMatch(signature, line)
    THEN RemoveScan(F, i + 1, signature, lines, Regex(SigGroup1(signature, line)))
    ELSE IF ~lr.set
    THEN RemoveScan(F, i + 1, signature, Append(lines, line), lr)
    ELSE IF CloseMatch(lr.lead, line)
    THEN RemoveScan(F, i + 1, signature, lines, NoRegex)
    ELSE RemoveScan(F, i + 1, signature, lines, lr)

\* the file remove_method(filename, signature) leaves
RemoveResult(F, signature) == Written(RemoveScan(F, 1, signature, <<>>, NoRegex))

(***************************************************************************)
(* copy_and_rename_method                                                  *)
(***************************************************************************)
RECURSIVE CopyScanRenamesBody(_, _, _, _, _, _, _, _)
\* copy_and_rename_method with the replacement made in every line of the copy
CopyScanRenamesBody(F, i, signature, before, after, lines, method, lr) ==
  IF i > Len(F) THEN lines
  ELSE LET line == F[i] IN
    IF SigMatch(signature, line)
    THEN CopyScanRenamesBody(F, i + 1, signature, before, after, Append(lines, line),
                  Append(method, Replace(line, before, after)),
                  Regex(SigGroup1(signature, line)))
    ELSE IF ~lr.set
    THEN CopyScanRenamesBody(F, i + 1, signature, before, after, Append(lines, line),
                  method, lr)
    ELSE IF CloseMatch(lr.lead, line)
    THEN CopyScanRenamesBody(F, i + 1, signature, before, after,
                  Append(lines, line) \o <<<<NL>>>>
                    \o Append(method, Replace(line, before, after)),
                  Append(method, Replace(line, before, after)), NoRegex)
    ELSE CopyScanRenamesBody(F, i + 1, signature, before, after, Append(lines, line),
                  Append(method, Replace(line, before, after)), lr)

RECURSIVE CopyScan(_, _, _, _, _, _, _, _)
\* the while loop of copy_and_rename_method over the lines F[i..], with the lists
\* `lines` and `method` and leading_regex as they stand
CopyScan(F, i, signature, before, after, lines, method, lr) ==
  IF i > Len(F) THEN lines
  ELSE LET line == F[i] IN
    IF SigMatch(signature, line)
    THEN CopyScan(F, i + 1, signature, before, after, Append(lines, line),
                  Append(method, Replace(line, before, after)),
                  Regex(SigGroup1(signature, line)))
    ELSE IF ~lr.set
    THEN CopyScan(F, i + 1, signature, before, after, Append(lines, line), method, lr)
    ELSE IF CloseMatch(lr.lead, line)
    THEN CopyScan(F, i + 1, signature, before, after,
                  Append(lines, line) \o <<<<NL>>>> \o Append(method, line),
                  Append(method, line), NoRegex)
    ELSE CopyScan(F, i + 1, signature, before, after, Append(lines, line),
                  Append(method, line), lr)

\* the file copy_and_rename_method(filename, signature, before, after) leaves
CopyResult(F, signature, before, after) ==
  Written(CopyScan(F, 1, signature, before, after, <<>>, <<>>, NoRegex))

(***************************************************************************)
(* add_javadoc                                                             *)
(***************************************************************************)
RECURSIVE PopWalkForgets(_, _)
\* the same walk without annotations.append(last_line): the popped lines are lost
PopWalkForgets(lines, annotations) ==
  IF lines = <<>>
  THEN [raised |-> TRUE, lines |-> lines, annotations |-> annotations, last_line |-> <<>>]
  ELSE LET last_line == lines[Len(lines)]
           rest == SubSeq(lines, 1, Len(lines) - 1)
       IN  IF LStrip(last_line) # <<>> /\ Head(LStrip(last_line)) = "@"
           THEN PopWalkForgets(rest, annotations)
           ELSE [raised |-> FALSE, lines |-> rest, annotations |-> annotations,
                 last_line |-> last_line]

RECURSIVE PopWalk(_, _)
\* last_line = lines.pop(), repeated while last_line is an annotation line;
\* lines.pop() on the empty list raises IndexError
PopWalk(lines, annotations) ==
  IF lines = <<>>
  THEN [raised |-> TRUE, lines |-> lines, annotations |-> annotations, last_line |-> <<>>]
  ELSE LET last_line == lines[Len(lines)]
           rest == SubSeq(lines, 1, Len(lines) - 1)
       IN  IF LStrip(last_line) # <<>> /\ Head(LStrip(last_line)) = "@"
           THEN PopWalk(rest, Append(annotations, last_line))
           ELSE [raised |-> FALSE, lines |-> rest, annotations |-> annotations,
                 last_line |-> last_line]

\* the lines the loop over `content` appends: the tagged first line, then continuations
ContentLines(indent, javadoc_type, content) ==
  [k \in 1..Len(content) |->
     IF k = 1
     THEN indent \o <<" ", "*", " ", "@">> \o javadoc_type \o <<" ">> \o content[k] \o <<NL>>
     ELSE indent \o <<" ", "*", " ", " ", " ">> \o content[k] \o <<NL>>]

\* the annotations in the order they were collected (bottom-up)
SameOrder(s) == s

\* annotations[::-1]
Reverse(s) == [k \in 1..Len(s) |-> s[Len(s) + 1 - k]]

RECURSIVE JavadocScan(_, _, _, _, _, _, _)
\* the while loop of add_javadoc over the lines F[i..], with the lists `lines` and
\* `annotations` as they stand; raised: an IndexError left the function
JavadocScan(F, i, signature, javadoc_type, content, lines, annotations) ==
  IF i > Len(F) THEN [raised |-> FALSE, lines |-> lines]
  ELSE LET line == F[i] IN
    IF SigMatch(signature, line)
    THEN LET indent == Spaces(LeadingCount(line))
             pw == PopWalk(lines, annotations)
             body == ContentLines(indent, javadoc_type, content)
             commented ==
               IF Strip(pw.last_line) = <<"*", "/">>
               THEN pw.lines \o body \o <<pw.last_line>>
               ELSE pw.lines \o <<pw.last_line>>
                      \o <<indent \o <<"/", "*", "*", NL>>>>
                      \o body
                      \o <<indent \o <<" ", "*", "/", NL>>>>
         IN  IF pw.raised
             THEN [raised |-> TRUE, lines |-> pw.lines]
             ELSE JavadocScan(F, i + 1, signature, javadoc_type, content,
                              Append(commented \o Reverse(pw.annotations), line),
                              pw.annotations)
    ELSE JavadocScan(F, i + 1, signature, javadoc_type, content,
                     Append(lines, line), annotations)

\* add_javadoc(filename, signature, javadoc_type, content): whether it raised, and
\* the file it leaves (the file is opened for writing only after the loop)
JavadocResult(F, signature, javadoc_type, content) ==
  LET r == JavadocScan(F, 1, signature, javadoc_type, content, <<>>, <<>>)
  IN  IF r.raised THEN [raised |-> TRUE, file |-> F]
      ELSE [raised |-> FALSE, file |-> Written(r.lines)]

(***************************************************************************)
(* annotate_method                                                         *)
(***************************************************************************)
RECURSIVE AnnotateScanBelow(_, _, _, _, _)
\* annotate_method with the annotation appended after the matching line
AnnotateScanBelow(F, i, signature, annotation, lines) ==
  IF i > Len(F) THEN lines
  ELSE LET line == F[i] IN
    IF SigMatch(signature, line)
    THEN AnnotateScanBelow(F, i + 1, signature, annotation,
           lines \o <<line, Spaces(LeadingCount(line)) \o annotation \o <<NL>>>>)
    ELSE AnnotateScanBelow(F, i + 1, signature, annotation, Append(lines, line))

RECURSIVE AnnotateScan(_, _, _, _, _)
\* the while loop of annotate_method over the lines F[i..]
AnnotateScan(F, i, signature, annotation, lines) ==
  IF i > Len(F) THEN lines
  ELSE LET line == F[i] IN
    IF SigMatch(signature, line)
    THEN AnnotateScan(F, i + 1, signature, annotation,
           lines \o <<Spaces(LeadingCount(line)) \o annotation \o <<NL>>, line>>)
    ELSE AnnotateScan(F, i + 1, signature, annotation, Append(lines, line))

\* the file annotate_method(filename, signature, annotation) leaves
AnnotateResult(F, signature, annotation) ==
  Written(AnnotateScan(F, 1, signature, annotation, <<>>))

(***************************************************************************)
(* deprecate_method                                                        *)
(***************************************************************************)
\* add_javadoc(filename, signature, "deprecated", alternative.splitlines()), then
\* annotate_method(filename, signature, "@Deprecated") unless the first call raised
DeprecateResult(F, signature, alternative) ==
  LET r == JavadocResult(F, signature, <<"deprecated">>, SplitLines(alternative))
  IN  IF r.raised THEN r
      ELSE [raised |-> FALSE,
            file |-> AnnotateResult(r.file, signature, <<"@", "Deprecated">>)]

(***************************************************************************)
(* The files and the arguments of the model.                               *)
(***************************************************************************)
\* the text with its line terminator
Ln(text) == text \o <<NL>>

\* signature: a method signature up to its opening parenthesis
Signatures == {<<"m", "(">>}

\* lines of a class body with methods: a signature line, a statement holding the
\* method's name, a closing brace of an inner block, the closing brace at the
\* signature's indentation, such a brace followed by more text, a blank line
BlockLines ==
  { Ln(<<" ", "m", "(", "{">>), Ln(<<" ", " ", "x", "m", ";">>),
    Ln(<<" ", " ", "}">>), Ln(<<" ", "}">>), Ln(<<" ", "}", ";">>), Ln(<<>>) }

\* lines around a documented method: a statement, the end of a comment, two
\* annotations, a signature line indented by a space and one indented by a tab
DocLines ==
  { Ln(<<" ", "x", ";">>), Ln(<<" ", "*", "/">>), Ln(<<" ", "@", "A">>),
    Ln(<<" ", "@", "B">>), Ln(<<" ", "m", "(", "{">>), Ln(<<"\t", "m", "(", "{">>) }

\* (before, after) of copy_and_rename_method
Renames == { <<<<"m">>, <<"n", "n">>>>, <<<<"x">>, <<"y">>>> }

\* content of add_javadoc
Contents == { <<<<"c">>>>, <<<<"c">>, <<"d">>>> }

\* alternative of deprecate_method
Alternatives == { <<"c", NL, "d">> }

\* annotation of annotate_method
Annotations == { <<"@", "A">> }

\* the files of at most MaxLen lines of A, each with and without the terminator of
\* its last line
FilesOver(A) ==
  LET T == UNION {[1..n -> A] : n \in 0..MaxLen}
  IN  T \cup {[f EXCEPT ![Len(f)] = SubSeq(@, 1, Len(@) - 1)] :
                f \in {g \in T : g # <<>> /\ Len(g[Len(g)]) > 1}}

(***************************************************************************)
(* The state machine: one editor call on the file, and the same call again *)
(* on the file it left (the synth script run again on its own output).     *)
(* hist records each call made: its arguments, the file it read and        *)
(* whether it raised.                                                      *)
(***************************************************************************)
NoArg == <<>>

\* run: the call in progress when the steps of a call are followed one by one (pc is
\* "idle" when none is): the call, the number of lines read, the list `lines`, the
\* number of its elements written
Idle == [pc |-> "idle", call |-> NoArg, k |-> 0, lines |-> <<>>, w |-> 0]

Call(op, signature, before, after, javadoc_type, content, annotation, alternative, raised) ==
  [op |-> op, signature |-> signature, before |-> before, after |-> after,
   javadoc_type |-> javadoc_type, content |-> content, annotation |-> annotation,
   alternative |-> alternative, input |-> file, raised |-> raised]

\* the call c may be made now
MayCall(c) ==
  /\ Len(hist) < MaxCalls
  /\ Len(file) <= MaxInput
  /\ hist # <<>> =>
       [c EXCEPT !.input = NoArg, !.raised = FALSE]
         = [hist[1] EXCEPT !.input = NoArg, !.raised = FALSE]

InitBlock == file \in FilesOver(BlockLines) /\ hist = <<>> /\ run = Idle

InitDoc == file \in FilesOver(DocLines) /\ hist = <<>> /\ run = Idle

Init == InitBlock \/ InitDoc

RemoveMethod ==
  \E signature \in Signatures :
    LET c == Call("remove_method", signature, NoArg, NoArg, NoArg, NoArg, NoArg,
                  NoArg, FALSE)
    IN  /\ MayCall(c)
        /\ file' = RemoveResult(file, signature)
        /\ hist' = Append(hist, c)
        /\ UNCHANGED run

CopyAndRenameMethod ==
  \E signature \in Signatures, r \in Renames :
    LET c == Call("copy_and_rename_method", signature, r[1], r[2], NoArg, NoArg,
                  NoArg, NoArg, FALSE)
    IN  /\ MayCall(c)
        /\ file' = CopyResult(file, signature, r[1], r[2])
        /\ hist' = Append(hist, c)
        /\ UNCHANGED run

AddJavadoc ==
  \E signature \in Signatures, content \in Contents :
    LET r == JavadocResult(file, signature, <<"deprecated">>, content)
        c == Call("add_javadoc", signature, NoArg, NoArg, <<"deprecated">>, content,
                  NoArg, NoArg, r.raised)
    IN  /\ MayCall(c)
        /\ file' = r.file
        /\ hist' = Append(hist, c)
        /\ UNCHANGED run

AnnotateMethod ==
  \E signature \in Signatures, annotation \in Annotations :
    LET c == Call("annotate_method", signature, NoArg, NoArg, NoArg, NoArg,
                  annotation, NoArg, FALSE)
    IN  /\ MayCall(c)
        /\ file' = AnnotateResult(file, signature, annotation)
        /\ hist' = Append(hist, c)
        /\ UNCHANGED run

DeprecateMethod ==
  \E signature \in Signatures, alternative \in Alternatives :
    LET r == DeprecateResult(file, signature, alternative)
        c == Call("deprecate_method", signature, NoArg, NoArg, NoArg, NoArg,
                  NoArg, alternative, r.raised)
    IN  /\ MayCall(c)
        /\ file' = r.file
        /\ hist' = Append(hist, c)
        /\ UNCHANGED run

\* the editors of a method's block, on files of BlockLines
NextBlock ==
  \/ RemoveMethod
  \/ CopyAndRenameMethod

SpecBlock == InitBlock /\ [][NextBlock]_vars

\* the editors of a method's documentation header, on files of DocLines
NextDoc ==
  \/ AddJavadoc
  \/ AnnotateMethod
  \/ DeprecateMethod

SpecDoc == InitDoc /\ [][NextDoc]_vars

\* every editor, on the files of both kinds
Next ==
  \/ RemoveMethod
  \/ CopyAndRenameMethod
  \/ AddJavadoc
  \/ AnnotateMethod
  \/ DeprecateMethod

Spec == Init /\ [][Next]_vars

(***************************************************************************)
(* Vocabulary of the properties, stated on the file a call read (its       *)
(* input) and the file it left, without reference to the scans above.      *)
(***************************************************************************)
\* the call made last, and the file it read
last == hist[Len(hist)]
Called(op) == hist # <<>> /\ last.op = op

\* the line holds the signature right after its leading whitespace
IsSigLine(signature, line) == StartsWith(LStrip(line), signature)

\* the positions of the lines of F that match the signature
SigLines(F, signature) == {i \in 1..Len(F) : IsSigLine(signature, F[i])}

\* the leading whitespace of a line
Indent(line) == SubSeq(line, 1, LeadingCount(line))

\* the line begins with the indentation of sigline followed by a closing brace
ClosesAt(sigline, line) == StartsWith(line, Append(Indent(sigline), "}"))

\* the positions after i of the lines of F that close the block opened at line i
Closers(F, i) == {j \in (i + 1)..Len(F) : ClosesAt(F[i], F[j])}

Least(S) == CHOOSE x \in S : \A y \in S : x <= y

\* exactly one line matches, and its block is closed
OneClosedBlock(F, signature) ==
  /\ Cardinality(SigLines(F, signature)) = 1
  /\ Closers(F, Least(SigLines(F, signature))) # {}

BlockFirst(F, signature) == Least(SigLines(F, signature))
BlockLast(F, signature) == Least(Closers(F, BlockFirst(F, signature)))

Before(F, i) == SubSeq(F, 1, i - 1)
After(F, j) == SubSeq(F, j + 1, Len(F))

(***************************************************************************)
(* C1.  remove_method, on a file in which exactly one line matches the     *)
(* signature and a later line closes the block (a later line that begins   *)
(* with the signature line's indentation followed by a closing brace):     *)
(* the file left is the file read without the lines from the signature     *)
(* line through the first such closing line; closing braces at a deeper    *)
(* indentation do not end the block; all other lines are kept, unchanged   *)
(* and in order.                                                           *)
(***************************************************************************)
C1_RemoveExactlyTheBlock ==
  Called("remove_method") /\ OneClosedBlock(last.input, last.signature) =>
    file = Before(last.input, BlockFirst(last.input, last.signature))
             \o After(last.input, BlockLast(last.input, last.signature))

\* a block with an inner closing brace at a deeper indentation was removed and the
\* one line outside it was kept
C1_Witness ==
  /\ Called("remove_method") /\ OneClosedBlock(last.input, last.signature)
  /\ \E k \in (BlockFirst(last.input, last.signature) + 1)
               ..(BlockLast(last.input, last.signature) - 1) :
       Strip(last.input[k]) = <<"}">>
  /\ Len(file) = 1

(***************************************************************************)
(* C2.  When no line of the file matches the signature, each of the five   *)
(* editors leaves the file exactly as it read it and does not raise; so    *)
(* does the same call made again on the file it left.                      *)
(***************************************************************************)
C2_NoMatchNoChange ==
  \A n \in 1..Len(hist) :
    SigLines(hist[n].input, hist[n].signature) = {} =>
      /\ ~hist[n].raised
      /\ (IF n < Len(hist) THEN hist[n + 1].input ELSE file) = hist[n].input

\* a file of several lines, the last one unterminated, none matching, was edited twice
C2_Witness ==
  /\ Len(hist) = 2
  /\ hist[1].op = "add_javadoc"
  /\ SigLines(hist[1].input, hist[1].signature) = {}
  /\ Len(hist[1].input) >= 3
  /\ hist[1].input[Len(hist[1].input)][Len(hist[1].input[Len(hist[1].input)])] # NL
  /\ file = hist[1].input

\* the lines of the copy in the file `out` left by copy_and_rename_method on F, whose
\* one block is F[i..j]: the j - i + 1 lines that precede the lines kept from after it
CopyBlock(out, F, i, j) ==
  SubSeq(out, Len(out) - (Len(F) - j) - (j - i), Len(out) - (Len(F) - j))

(***************************************************************************)
(* C3.  copy_and_rename_method, on a file in which exactly one line        *)
(* matches the signature and the block is closed: the lines up to the end  *)
(* of the original block are left as they were, one blank line follows the *)
(* block's closing line, the copy starts right after that blank line, and  *)
(* the lines after the block follow the copy unchanged.                    *)
(***************************************************************************)
C3_CopyAfterOneBlankLine ==
  Called("copy_and_rename_method") /\ OneClosedBlock(last.input, last.signature) =>
    LET F == last.input
        i == BlockFirst(F, last.signature)
        j == BlockLast(F, last.signature)
    IN  /\ Len(file) = Len(F) + 1 + (j - i + 1)
        /\ SubSeq(file, 1, j) = SubSeq(F, 1, j)
        /\ file[j + 1] = <<NL>>
        /\ file[j + 2] = Replace(F[i], last.before, last.after)
        /\ After(file, j + 1 + (j - i + 1)) = After(F, j)

\* the same, for the files whose block's closing line is terminated
C3_TerminatedCloser ==
  Called("copy_and_rename_method") /\ OneClosedBlock(last.input, last.signature)
    /\ last.input[BlockLast(last.input, last.signature)]
         [Len(last.input[BlockLast(last.input, last.signature)])] = NL
  => C3_CopyAfterOneBlankLine

(***************************************************************************)
(* C4 as claimed.  copy_and_rename_method run once on such a file: the     *)
(* copy is the original block with every occurrence of `before` replaced   *)
(* by `after` in every line of the block, signature line and body alike.   *)
(***************************************************************************)
C4_CopyRenamedInEveryLine ==
  Called("copy_and_rename_method") /\ Len(hist) = 1
    /\ OneClosedBlock(last.input, last.signature) =>
    LET F == last.input
        i == BlockFirst(F, last.signature)
        j == BlockLast(F, last.signature)
    IN  CopyBlock(file, F, i, j)
          = [k \in 1..(j - i + 1) |-> Replace(F[i + k - 1], last.before, last.after)]

(***************************************************************************)
(* C4 as amended.  copy_and_rename_method run once on such a file: the     *)
(* copy's first line is the signature line with every occurrence of        *)
(* `before` replaced by `after`; the other lines of the copy are the       *)
(* block's lines after the signature line, unchanged (also where they hold *)
(* `before`).                                                              *)
(***************************************************************************)
C4_CopyRenamedInSignatureLine ==
  Called("copy_and_rename_method")
    /\ OneClosedBlock(last.input, last.signature) =>
    LET F == last.input
        i == BlockFirst(F, last.signature)
        j == BlockLast(F, last.signature)
    IN  CopyBlock(file, F, i, j)
          = <<Replace(F[i], last.before, last.after)>> \o SubSeq(F, i + 1, j)

\* a block was copied whose signature line and whose body both hold `before`
C4_Witness ==
  /\ Called("copy_and_rename_method") /\ Len(hist) = 1
  /\ OneClosedBlock(last.input, last.signature)
  /\ LET F == last.input
         i == BlockFirst(F, last.signature)
         j == BlockLast(F, last.signature)
     IN  /\ Replace(F[i], last.before, last.after) # F[i]
         /\ \E k \in (i + 1)..j : Replace(F[k], last.before, last.after) # F[k]
         /\ Len(file) > Len(F)

(***************************************************************************)
(* Vocabulary of the documentation header.                                 *)
(***************************************************************************)
\* a line whose content, after its leading whitespace, starts with "@"
IsAnnotationLine(line) == LStrip(line) # <<>> /\ Head(LStrip(line)) = "@"

\* the last line above line i of F that is no annotation line; 0 when there is none
HeaderEnd(F, i) ==
  LET P == {p \in 1..(i - 1) : ~IsAnnotationLine(F[p])}
  IN  IF P = {} THEN 0 ELSE CHOOSE p \in P : \A q \in P : q <= p

IsCommentEnd(line) == Strip(line) = <<"*", "/">>
IsCommentStart(line) == Strip(line) = <<"/", "*", "*">>

\* the content of the k-th line of a note, after its indentation
NoteText(javadoc_type, content, k) ==
  IF k = 1
  THEN <<"*", " ", "@">> \o javadoc_type \o <<" ">> \o content[1] \o <<NL>>
  ELSE <<"*", " ", " ", " ">> \o content[k] \o <<NL>>

\* a new comment holding the note, every line of it behind the indentation ind
NewComment(ind, javadoc_type, content) ==
  <<ind \o <<"/", "*", "*", NL>>>>
    \o [k \in 1..Len(content) |-> ind \o <<" ">> \o NoteText(javadoc_type, content, k)]
    \o <<ind \o <<" ", "*", "/", NL>>>>

(***************************************************************************)
(* C5.  add_javadoc, on a file whose one signature line has above it,      *)
(* past any annotation lines, a line that is not a comment end: a new      *)
(* comment is inserted right after that line: an opening line, the tagged  *)
(* first content line, one continuation line per further content line, a   *)
(* closing line, each behind the signature line's own indentation; the     *)
(* annotation lines and the signature line follow, and all other lines are *)
(* as they were.                                                           *)
(***************************************************************************)
C5_NewCommentAtSignatureIndent ==
  Called("add_javadoc") /\ Cardinality(SigLines(last.input, last.signature)) = 1 =>
    LET F == last.input
        i == BlockFirst(F, last.signature)
        p == HeaderEnd(F, i)
    IN  p > 0 /\ ~IsCommentEnd(F[p]) =>
          file = SubSeq(F, 1, p)
                   \o NewComment(Indent(F[i]), last.javadoc_type, last.content)
                   \o After(F, p)

\* the same, for signature lines indented with spaces only
C5_SpaceIndented ==
  Called("add_javadoc") /\ Cardinality(SigLines(last.input, last.signature)) = 1
    /\ Indent(last.input[BlockFirst(last.input, last.signature)])
         = Spaces(LeadingCount(last.input[BlockFirst(last.input, last.signature)]))
  => C5_NewCommentAtSignatureIndent

(***************************************************************************)
(* C6.  add_javadoc, where the first signature line has above it, past     *)
(* zero or more annotation lines, a comment end: the tagged line and its   *)
(* continuation lines are inserted immediately before that comment end;    *)
(* the lines above them are as they were; the comment end, the annotation  *)
(* lines in their order and the signature line follow directly; no comment *)
(* start or comment end is added; and when no other line matches, the      *)
(* lines after the signature line are as they were.                        *)
(***************************************************************************)
C6_NoteBeforeCommentEnd ==
  Called("add_javadoc") /\ SigLines(last.input, last.signature) # {} =>
    LET F == last.input
        i == BlockFirst(F, last.signature)
        p == HeaderEnd(F, i)
        c == Len(last.content)
    IN  p > 0 /\ IsCommentEnd(F[p]) =>
          /\ ~last.raised
          /\ Len(file) >= i + c
          /\ SubSeq(file, 1, p - 1) = SubSeq(F, 1, p - 1)
          /\ \A k \in 1..c :
               LStrip(file[p - 1 + k]) = NoteText(last.javadoc_type, last.content, k)
          /\ SubSeq(file, p + c, i + c) = SubSeq(F, p, i)
          /\ Cardinality(SigLines(F, last.signature)) = 1 =>
               /\ After(file, i + c) = After(F, i)
               /\ Cardinality({k \in 1..Len(file) :
                                 IsCommentEnd(file[k]) \/ IsCommentStart(file[k])})
                    = Cardinality({k \in 1..Len(F) :
                                     IsCommentEnd(F[k]) \/ IsCommentStart(F[k])})

\* a note of two lines was added to a comment whose end had two different
\* annotation lines between it and the signature line
C6_Witness ==
  /\ Called("add_javadoc") /\ ~last.raised
  /\ Cardinality(SigLines(last.input, last.signature)) = 1
  /\ LET F == last.input
         i == BlockFirst(F, last.signature)
         p == HeaderEnd(F, i)
     IN  /\ p > 0 /\ IsCommentEnd(F[p])
         /\ i = p + 3 /\ F[p + 1] # F[p + 2]
         /\ Len(last.content) = 2
         /\ Len(file) = Len(F) + 2

(***************************************************************************)
(* C7.  annotate_method: the file left holds every line of the file read,  *)
(* unchanged and in order, and, immediately above each line that matches   *)
(* the signature (every one, not only the first), one added line holding   *)
(* the annotation; nothing else is added.                                  *)
(***************************************************************************)
C7_AnnotationAboveEveryMatch ==
  Called("annotate_method") =>
    LET F == last.input
        M == SigLines(F, last.signature)
        pos(q) == q + Cardinality({m \in M : m <= q})
    IN  /\ Len(file) = Len(F) + Cardinality(M)
        /\ \A k \in 1..Len(F) : file[pos(k)] = F[k]
        /\ \A m \in M : LStrip(file[pos(m) - 1]) = Ln(last.annotation)

\* two lines matched and a line that does not match stood between them
C7_Witness ==
  /\ Called("annotate_method")
  /\ \E m1, m2 \in SigLines(last.input, last.signature) :
       /\ m2 > m1 + 1
       /\ m1 + 1 \notin SigLines(last.input, last.signature)
  /\ Len(file) >= Len(last.input) + 2

(***************************************************************************)
(* C8.  deprecate_method is not idempotent: on a file in which the         *)
(* signature matches one line, the first call adds one @deprecated note    *)
(* and one @Deprecated marker line, the marker directly above the          *)
(* signature line; the same call on the file it left adds a second note    *)
(* and a second marker line.                                               *)
(***************************************************************************)
NoteCount(F) ==
  Cardinality({k \in 1..Len(F) :
                 StartsWith(LStrip(F[k]), <<"*", " ", "@", "deprecated">>)})

MarkerCount(F) ==
  Cardinality({k \in 1..Len(F) : Strip(F[k]) = <<"@", "Deprecated">>})

\* the file the n-th call left
Output(n) == IF n < Len(hist) THEN hist[n + 1].input ELSE file

C8_DeprecateTwiceAddsTwice ==
  \A n \in 1..Len(hist) :
    hist[n].op = "deprecate_method"
      /\ Cardinality(SigLines(hist[1].input, hist[1].signature)) = 1 =>
      LET G == Output(n)
          s == Least(SigLines(G, hist[n].signature))
      IN  /\ NoteCount(G) = NoteCount(hist[1].input) + n
          /\ MarkerCount(G) = MarkerCount(hist[1].input) + n
          /\ s > 1 /\ Strip(G[s - 1]) = <<"@", "Deprecated">>

\* the same, for the calls that did not raise
C8_WhenNotRaised ==
  (\E n \in 1..Len(hist) : hist[n].raised) \/ C8_DeprecateTwiceAddsTwice

(***************************************************************************)
(* C9.  Unterminated block: when one line matches the signature and no     *)
(* later line closes the block, remove_method and copy_and_rename_method   *)
(* leave the file as they read it: every line is retained.                 *)
(***************************************************************************)
Unterminated(F, signature) ==
  /\ Cardinality(SigLines(F, signature)) = 1
  /\ Closers(F, Least(SigLines(F, signature))) = {}

C9_UnterminatedBlockKeepsAll ==
  (Called("remove_method") \/ Called("copy_and_rename_method"))
    /\ Unterminated(last.input, last.signature) =>
    file = last.input

\* the same, for copy_and_rename_method alone
C9_CopyKeepsAll ==
  Called("copy_and_rename_method") => C9_UnterminatedBlockKeepsAll

(***************************************************************************)
(* C10.  First match wins: when two or more lines match the signature (the *)
(* first one's block being closed before the second, for remove_method and *)
(* copy_and_rename_method), remove_method, copy_and_rename_method and      *)
(* add_javadoc leave what editing only the lines above the second matching *)
(* line leaves, followed by the second matching line and all lines after   *)
(* it, unchanged.                                                          *)
(***************************************************************************)
C10_FirstMatchOnly ==
  hist # <<>> /\ ~last.raised
    /\ Cardinality(SigLines(last.input, last.signature)) >= 2 =>
    LET F == last.input
        i == Least(SigLines(F, last.signature))
        k == Least(SigLines(F, last.signature) \ {i})
        head == SubSeq(F, 1, k - 1)
        rest == SubSeq(F, k, Len(F))
        closed == \E j \in Closers(F, i) : j < k
    IN  /\ last.op = "remove_method" /\ closed =>
              file = RemoveResult(head, last.signature) \o rest
        /\ last.op = "copy_and_rename_method" /\ closed =>
              file = CopyResult(head, last.signature, last.before, last.after) \o rest
        /\ last.op = "add_javadoc" =>
              file = JavadocResult(head, last.signature, last.javadoc_type,
                                   last.content).file \o rest

(***************************************************************************)
(* C11.  copy_and_rename_method called n times with the same arguments,    *)
(* starting on a file in which one line matches the signature and its      *)
(* block is closed: the file left by the n-th call holds the original      *)
(* block and exactly n copies of it, that is 1 + n lines that are the      *)
(* signature line or its renamed form.                                     *)
(***************************************************************************)
BlockStarts(G, sigline, before, after) ==
  {k \in 1..Len(G) : G[k] = sigline \/ G[k] = Replace(sigline, before, after)}

C11_OneCopyPerCall ==
  \A n \in 1..Len(hist) :
    hist[n].op = "copy_and_rename_method"
      /\ OneClosedBlock(hist[1].input, hist[1].signature) =>
      LET F == hist[1].input
          i == BlockFirst(F, hist[1].signature)
      IN  Cardinality(BlockStarts(Output(n), F[i], hist[n].before, hist[n].after))
            = 1 + n

\* the same, for the renames after which the copy's first line no longer matches
C11_WhenCopyDoesNotMatch ==
  \A n \in 1..Len(hist) :
    hist[n].op = "copy_and_rename_method"
      /\ OneClosedBlock(hist[1].input, hist[1].signature)
      /\ ~IsSigLine(hist[1].signature,
                    Replace(hist[1].input[BlockFirst(hist[1].input, hist[1].signature)],
                            hist[n].before, hist[n].after))
      => Cardinality(BlockStarts(Output(n),
                                 hist[1].input[BlockFirst(hist[1].input, hist[1].signature)],
                                 hist[n].before, hist[n].after)) = 1 + n

(***************************************************************************)
(* C12.  No call of an editor raises, wherever the signature line stands   *)
(* in the file: on the first line, or with only annotation lines above it. *)
(***************************************************************************)
C12_NeverRaises == \A n \in 1..Len(hist) : ~hist[n].raised

\* the same, for the files whose first signature line has, above it, a line that is
\* no annotation line
C12_WhenHeaderHasALine ==
  \A n \in 1..Len(hist) :
    LET M == SigLines(hist[n].input, hist[n].signature)
    IN  (\A m \in M : HeaderEnd(hist[n].input, m) > 0) => ~hist[n].raised

(***************************************************************************)
(* Vocabulary of C13: where the block opened at line i of F ends.          *)
(***************************************************************************)
\* the positions after i of the lines of F that have the indentation of line i and
\* hold, apart from whitespace, a closing brace and nothing else
BraceOnlyClosers(F, i) ==
  {j \in (i + 1)..Len(F) : Indent(F[j]) = Indent(F[i]) /\ Strip(F[j]) = <<"}">>}

\* the call made last treated the lines i..j of the file it read as the block:
\* remove_method left the lines outside i..j; copy_and_rename_method left the lines
\* up to j (the closing line terminated if it was not), the copy of the lines i..j
\* right after it or after one more line, and then the lines after j
EndsAt(i, j) ==
  LET F == last.input
  IN  /\ last.op = "remove_method" => file = Before(F, i) \o After(F, j)
      /\ last.op = "copy_and_rename_method" =>
           \E d \in {1, 2} :
             /\ Len(file) = Len(F) + (j - i + 1) + (d - 1)
             /\ SubSeq(file, 1, j - 1) = SubSeq(F, 1, j - 1)
             /\ StartsWith(file[j], F[j])
             /\ SubSeq(file, j + d, j + d + (j - i))
                  = <<Replace(F[i], last.before, last.after)>> \o SubSeq(F, i + 1, j)
             /\ After(file, j + d + (j - i)) = After(F, j)

(***************************************************************************)
(* C13 as claimed.  remove_method and copy_and_rename_method, on a file in *)
(* which one line matches the signature: the block ends at the first later *)
(* line whose leading whitespace is the signature line's and whose whole   *)
(* content, apart from whitespace, is one closing brace; a line such as    *)
(* "};" at that indentation does not end it.                               *)
(***************************************************************************)
C13_EndsAtBraceOnlyLine ==
  (Called("remove_method") \/ Called("copy_and_rename_method"))
    /\ Cardinality(SigLines(last.input, last.signature)) = 1
    /\ BraceOnlyClosers(last.input, BlockFirst(last.input, last.signature)) # {} =>
    EndsAt(BlockFirst(last.input, last.signature),
           Least(BraceOnlyClosers(last.input, BlockFirst(last.input, last.signature))))

(***************************************************************************)
(* C13 as amended.  On such a file the block ends at the first later line  *)
(* that begins with the signature line's leading whitespace followed by a  *)
(* closing brace, whatever follows the brace on that line: "};" at that    *)
(* indentation ends the block.                                             *)
(***************************************************************************)
C13_EndsAtLineStartingWithBrace ==
  (Called("remove_method") \/ Called("copy_and_rename_method"))
    /\ OneClosedBlock(last.input, last.signature) =>
    EndsAt(BlockFirst(last.input, last.signature),
           BlockLast(last.input, last.signature))

\* a block was copied whose first line beginning with a closing brace at the
\* signature's indentation holds more than the brace, a brace-only line following
C13_Witness ==
  /\ Called("copy_and_rename_method") /\ OneClosedBlock(last.input, last.signature)
  /\ Strip(last.input[BlockLast(last.input, last.signature)]) # <<"}">>
  /\ \E j \in BraceOnlyClosers(last.input, BlockFirst(last.input, last.signature)) :
       j > BlockLast(last.input, last.signature)
  /\ Len(file) = Len(last.input) + 1
               + (BlockLast(last.input, last.signature)
                    - BlockFirst(last.input, last.signature) + 1)

(***************************************************************************)
(* C14.  Every line that add_javadoc and annotate_method insert begins     *)
(* with the leading whitespace of the signature line it is inserted for,   *)
(* character for character: behind a tab the inserted line has a tab.      *)
(* Stated for annotate_method on every matching line, and for add_javadoc  *)
(* on the files with one matching line.                                    *)
(***************************************************************************)
C14_InsertedLinesKeepIndent ==
  /\ Called("annotate_method") =>
       LET F == last.input
           M == SigLines(F, last.signature)
           pos(q) == q + Cardinality({m \in M : m <= q})
       IN  \A m \in M : file[pos(m) - 1] = Indent(F[m]) \o Ln(last.annotation)
  /\ Called("add_javadoc") /\ ~last.raised
       /\ Cardinality(SigLines(last.input, last.signature)) = 1 =>
       LET F == last.input
           i == BlockFirst(F, last.signature)
           p == HeaderEnd(F, i)
           first == IF IsCommentEnd(F[p]) THEN p ELSE p + 1
       IN  \A k \in first..(first + (Len(file) - Len(F)) - 1) :
             StartsWith(file[k], Indent(F[i]))

\* the same, for signature lines indented with spaces only
C14_SpaceIndented ==
  (hist # <<>> =>
     \A m \in SigLines(last.input, last.signature) :
       Indent(last.input[m]) = Spaces(LeadingCount(last.input[m])))
  => C14_InsertedLinesKeepIndent

(***************************************************************************)
(* Signature matching: the four editors on files whose lines hold the      *)
(* signature behind whitespace, behind other text, and at the start of the *)
(* line, called with a signature and with the same signature behind a      *)
(* space.                                                                  *)
(***************************************************************************)
MatchSignatures == { <<"m", "(">>, <<" ", "m", "(">> }

\* lines: the signature at the start of the line, behind one space, behind two
\* spaces, behind other text, and a closing brace
MatchLines ==
  { Ln(<<"m", "(", ";">>), Ln(<<" ", "m", "(", "{">>), Ln(<<" ", " ", "m", "(", ";">>),
    Ln(<<" ", "x", "m", "(", ";">>), Ln(<<" ", "}">>) }

InitMatch == file \in FilesOver(MatchLines) /\ hist = <<>> /\ run = Idle

RemoveMatching ==
  \E signature \in MatchSignatures :
    LET c == Call("remove_method", signature, NoArg, NoArg, NoArg, NoArg, NoArg,
                  NoArg, FALSE)
    IN  /\ MayCall(c)
        /\ file' = RemoveResult(file, signature)
        /\ hist' = Append(hist, c)
        /\ UNCHANGED run

CopyMatching ==
  \E signature \in MatchSignatures :
    LET c == Call("copy_and_rename_method", signature, <<"m">>, <<"n", "n">>, NoArg,
                  NoArg, NoArg, NoArg, FALSE)
    IN  /\ MayCall(c)
        /\ file' = CopyResult(file, signature, <<"m">>, <<"n", "n">>)
        /\ hist' = Append(hist, c)
        /\ UNCHANGED run

JavadocMatching ==
  \E signature \in MatchSignatures :
    LET r == JavadocResult(file, signature, <<"deprecated">>, <<<<"c">>>>)
        c == Call("add_javadoc", signature, NoArg, NoArg, <<"deprecated">>, <<<<"c">>>>,
                  NoArg, NoArg, r.raised)
    IN  /\ MayCall(c)
        /\ file' = r.file
        /\ hist' = Append(hist, c)
        /\ UNCHANGED run

AnnotateMatching ==
  \E signature \in MatchSignatures :
    LET c == Call("annotate_method", signature, NoArg, NoArg, NoArg, NoArg,
                  <<"@", "A">>, NoArg, FALSE)
    IN  /\ MayCall(c)
        /\ file' = AnnotateResult(file, signature, <<"@", "A">>)
        /\ hist' = Append(hist, c)
        /\ UNCHANGED run

NextMatch ==
  \/ RemoveMatching
  \/ CopyMatching
  \/ JavadocMatching
  \/ AnnotateMatching

SpecMatch == InitMatch /\ [][NextMatch]_vars

\* the line holds the signature behind whitespace only: behind some, not necessarily
\* all, of the line's leading whitespace
FollowsWhitespace(signature, line) ==
  \E k \in 0..LeadingCount(line) : StartsWith(SubSeq(line, k + 1, Len(line)), signature)

\* the call made last edited the file as if M were the matching lines of the file it
\* read and G the matching lines of the file it left: annotate_method added one
\* line above each line of M and nothing else; remove_method left no matching line,
\* and changed nothing when M is empty; copy_and_rename_method changed nothing when M
\* is empty; add_javadoc changed the file or raised exactly when M is not empty
EditedWhere(M, G) ==
  LET F == last.input
      pos(q) == q + Cardinality({m \in M : m <= q})
  IN  /\ last.op = "annotate_method" =>
           /\ Len(file) = Len(F) + Cardinality(M)
           /\ \A q \in 1..Len(F) : file[pos(q)] = F[q]
           /\ \A m \in M : LStrip(file[pos(m) - 1]) = Ln(last.annotation)
      /\ last.op = "remove_method" => G = {} /\ (M = {} => file = F)
      /\ last.op = "copy_and_rename_method" => (M = {} => file = F)
      /\ last.op = "add_javadoc" => (M # {} <=> (last.raised \/ file # F))

(***************************************************************************)
(* C15 as claimed.  In the four editors a line matches if and only if what *)
(* remains of it after its leading whitespace starts with the signature    *)
(* string; a line that holds the signature only behind other text does not *)
(* match.                                                                  *)
(***************************************************************************)
C15_MatchAfterLeadingWhitespace ==
  hist # <<>> =>
    EditedWhere(SigLines(last.input, last.signature), SigLines(file, last.signature))

(***************************************************************************)
(* C15 as amended.  In the four editors a line matches if and only if it   *)
(* holds the signature string behind whitespace only, that is behind some  *)
(* or all of its leading whitespace: a signature that itself begins with   *)
(* whitespace matches a line that is indented deeper; a line that holds    *)
(* the signature only behind other text does not match.                    *)
(***************************************************************************)
C15_MatchBehindWhitespaceOnly ==
  hist # <<>> =>
    EditedWhere({i \in 1..Len(last.input) : FollowsWhitespace(last.signature, last.input[i])},
                {i \in 1..Len(file) : FollowsWhitespace(last.signature, file[i])})

\* annotate_method, called with a signature that begins with a space, added one line
\* to a file that holds the signature behind two spaces, behind other text, and
\* at the start of the line without the space
C15_Witness ==
  /\ Called("annotate_method") /\ Head(last.signature) = " "
  /\ \E a, b, c \in 1..Len(last.input) :
       /\ last.input[a] = Ln(<<" ", " ", "m", "(", ";">>)
       /\ last.input[b] = Ln(<<" ", "x", "m", "(", ";">>)
       /\ last.input[c] = Ln(<<"m", "(", ";">>)
  /\ Len(file) = Len(last.input) + 1

(***************************************************************************)
(* C16.  Whenever copy_and_rename_method, add_javadoc or annotate_method   *)
(* completes, on any file and with any number of matching lines, the lines *)
(* of the file it read are a subsequence of the lines of the file it left: *)
(* no line is removed, altered or moved past another.                      *)
(***************************************************************************)
RECURSIVE Embeds(_, _, _, _)
\* the lines of a from position i on occur, in their order, among those of b from j on
Embeds(a, i, b, j) ==
  IF i > Len(a) THEN TRUE
  ELSE IF j > Len(b) THEN FALSE
  ELSE IF a[i] = b[j] THEN Embeds(a, i + 1, b, j + 1)
  ELSE Embeds(a, i, b, j + 1)

IsSubsequence(a, b) == Embeds(a, 1, b, 1)

C16_InsertOnly ==
  \A n \in 1..Len(hist) :
    hist[n].op \in {"copy_and_rename_method", "add_javadoc", "annotate_method"}
      /\ ~hist[n].raised =>
      IsSubsequence(hist[n].input, Output(n))

\* add_javadoc completed on a file in which two lines match, the second one with an
\* annotation line directly above it, and left a longer file
C16_Witness ==
  /\ Called("add_javadoc") /\ ~last.raised
  /\ \E m1, m2 \in SigLines(last.input, last.signature) :
       m1 < m2 - 1 /\ IsAnnotationLine(last.input[m2 - 1])
  /\ Len(file) > Len(last.input)

(***************************************************************************)
(* The steps of one call of remove_method, copy_and_rename_method,         *)
(* add_javadoc or annotate_method: the file is opened for reading, read    *)
(* line by line while `lines` is built, opened for writing, and the        *)
(* elements of `lines` are written one by one.                             *)
(***************************************************************************)
\* the bound on the lines of the files whose editing is followed step by step
MaxStepLen == 3

\* lines: a statement, an annotation, a signature line, the closing brace
StepLines ==
  { Ln(<<" ", "x", ";">>), Ln(<<" ", "@", "A">>), Ln(<<" ", "m", "(", "{">>),
    Ln(<<" ", "}">>) }

StepFiles == {f \in FilesOver(StepLines) : Len(f) <= MaxStepLen}

StepCalls ==
  { Call("remove_method", <<"m", "(">>, NoArg, NoArg, NoArg, NoArg, NoArg, NoArg, FALSE),
    Call("copy_and_rename_method", <<"m", "(">>, <<"m">>, <<"n", "n">>, NoArg, NoArg,
         NoArg, NoArg, FALSE),
    Call("add_javadoc", <<"m", "(">>, NoArg, NoArg, <<"deprecated">>, <<<<"c">>>>,
         NoArg, NoArg, FALSE),
    Call("annotate_method", <<"m", "(">>, NoArg, NoArg, NoArg, NoArg, <<"@", "A">>,
         NoArg, FALSE) }

\* the list `lines` of the call c once the loop has gone through the lines F, and
\* whether the loop was left by an IndexError
LoopOver(c, F) ==
  CASE c.op = "remove_method" ->
         [raised |-> FALSE, lines |-> RemoveScan(F, 1, c.signature, <<>>, NoRegex)]
    [] c.op = "copy_and_rename_method" ->
         [raised |-> FALSE,
          lines |-> CopyScan(F, 1, c.signature, c.before, c.after, <<>>, <<>>, NoRegex)]
    [] c.op = "add_javadoc" ->
         JavadocScan(F, 1, c.signature, c.javadoc_type, c.content, <<>>, <<>>)
    [] c.op = "annotate_method" ->
         [raised |-> FALSE, lines |-> AnnotateScan(F, 1, c.signature, c.annotation, <<>>)]

\* the file once open(filename, "w") has returned: empty
OpenedForWriting(F) == <<>>

\* the file once opened in a mode that truncates it
OpenedTruncated(F) == <<>>

\* the file once open(filename, "r") has returned: as it was
OpenedForReading(F) == F

InitSteps == file \in StepFiles /\ hist = <<>> /\ run = Idle

\* the editor is called: with open(filename, "r") as fp
OpenRead ==
  \E c \in StepCalls :
    /\ run.pc = "idle"
    /\ run' = [pc |-> "read", call |-> c, k |-> 0, lines |-> <<>>, w |-> 0]
    /\ file' = OpenedForReading(file)
    /\ UNCHANGED hist

\* line = fp.readline() returns the next line of the file, and the body of the loop
\* runs on it; an IndexError in it leaves the editor
ReadLine ==
  /\ run.pc = "read" /\ run.k < Len(file)
  /\ LET r == LoopOver(run.call, SubSeq(file, 1, run.k + 1))
     IN  /\ run' = [run EXCEPT !.pc = IF r.raised THEN "raised" ELSE "read",
                               !.k = run.k + 1, !.lines = r.lines]
         /\ hist' = IF r.raised THEN Append(hist, [run.call EXCEPT !.raised = TRUE])
                    ELSE hist
  /\ UNCHANGED file

\* fp.readline() returns "": the loop and the first `with` end, and
\* with open(filename, "w") as fp
OpenWrite ==
  /\ run.pc = "read" /\ run.k = Len(file)
  /\ run' = [run EXCEPT !.pc = "write"]
  /\ file' = OpenedForWriting(file)
  /\ UNCHANGED hist

\* fp.write(line) for the next element of `lines`
WriteLine ==
  /\ run.pc = "write" /\ run.w < Len(run.lines)
  /\ run' = [run EXCEPT !.w = run.w + 1]
  /\ file' = Written(SubSeq(run.lines, 1, run.w + 1))
  /\ UNCHANGED hist

\* the loop over `lines` and the second `with` end: the editor returns
Return ==
  /\ run.pc = "write" /\ run.w = Len(run.lines)
  /\ run' = [run EXCEPT !.pc = "done"]
  /\ hist' = Append(hist, run.call)
  /\ UNCHANGED file

NextSteps ==
  \/ OpenRead
  \/ ReadLine
  \/ OpenWrite
  \/ WriteLine
  \/ Return

SpecSteps == InitSteps /\ [][NextSteps]_vars

(***************************************************************************)
(* C17.  In remove_method, copy_and_rename_method, add_javadoc and         *)
(* annotate_method the read phase strictly precedes the write phase: while *)
(* the editor reads, and when the scan has stopped with an error, the file *)
(* holds exactly what it held when the editor was called; the file is      *)
(* opened for writing, and changes, only once every line of it has been    *)
(* read and `lines` is complete.                                           *)
(***************************************************************************)
C17_ReadBeforeWrite ==
  /\ run.pc \in {"read", "raised"} => file = run.call.input
  /\ run.pc \in {"write", "done"} =>
       /\ run.k = Len(run.call.input)
       /\ run.lines = LoopOver(run.call, run.call.input).lines
       /\ file = Written(SubSeq(run.lines, 1, run.w))

\* the steps leave what the call taken as a whole leaves
C17_StepsAgreeWithCall ==
  run.pc \in {"done", "raised"} =>
    LET c == run.call IN
      /\ c.op = "remove_method" => file = RemoveResult(c.input, c.signature)
      /\ c.op = "copy_and_rename_method" =>
           file = CopyResult(c.input, c.signature, c.before, c.after)
      /\ c.op = "add_javadoc" =>
           /\ file = JavadocResult(c.input, c.signature, c.javadoc_type, c.content).file
           /\ last.raised
                = JavadocResult(c.input, c.signature, c.javadoc_type, c.content).raised
      /\ c.op = "annotate_method" => file = AnnotateResult(c.input, c.signature, c.annotation)

\* add_javadoc read two lines of a file of three, the second one a signature line
\* under an annotation line, and stopped with an error before reading the third
C17_Witness ==
  /\ run.pc = "raised" /\ run.call.op = "add_javadoc"
  /\ run.k = 2 /\ Len(file) = 3
  /\ IsAnnotationLine(file[1])

====
